---- MODULE Spec2Model ----
(***************************************************************************)
(* A model of the goulash/pre preprocessor: the scanner (ast/lexer.go),    *)
(* the directive parser and include resolver (ast.Parser), the node tree   *)
(* (ast/nodes.go) and the Processor wrapper.                               *)
(*                                                                         *)
(* Text is a sequence of one-character strings.  Offsets are 0-based, as   *)
(* in the Go code; the character at offset k is inp[k + 1].                *)
(***************************************************************************)
EXTENDS Integers, Sequences, FiniteSets, TLC

\* ------------------------------------------------------------------------
\* Bounds of the model
\* ------------------------------------------------------------------------
MaxLen == 4
MaxLines == 2
MaxIncludeDepth == 2
MaxKids == 8
MaxOther == 1

\* ------------------------------------------------------------------------
\* Characters
\* ------------------------------------------------------------------------
NL == "\n"
CR == "\r"
SP == " "
DQ == "\""
BS == "\\"

Letters ==
  {"a","b","c","d","e","f","g","h","i","j","k","l","m","n","o","p","q","r",
   "s","t","u","v","w","x","y","z","X","Y","E","T","_","0","1"}

IsSpace(r) == r \in {" ", "\t"}
IsEndline(r) == r \in {NL, CR}
\* lex.IsQuote also accepts the backquote, which the model's alphabet omits.
IsQuote(r) == r \in {DQ, "'"}
IsAlphaNumeric(r) == r \in Letters

\* The rune at offset k, or "EOF" past the end of the input (lex.Next/Peek).
EOF == "EOF"
RuneAt(inp, k) == IF k < Len(inp) THEN inp[k + 1] ELSE EOF

HasPrefixAt(inp, k, s) ==
  /\ k + Len(s) <= Len(inp)
  /\ SubSeq(inp, k + 1, k + Len(s)) = s

RECURSIVE CountNL(_, _)
CountNL(inp, k) ==
  IF k = 0 THEN 0
  ELSE CountNL(inp, k - 1) + (IF inp[k] = NL THEN 1 ELSE 0)

RECURSIVE LastNL(_, _)
LastNL(inp, k) ==
  IF k = 0 THEN 0 ELSE IF inp[k] = NL THEN k ELSE LastNL(inp, k - 1)

\* Line and column (1-based) of the character at offset k of inp.
LineAt(inp, k) == 1 + CountNL(inp, k)
ColAt(inp, k) == k - LastNL(inp, k) + 1

RECURSIVE Flatten(_)
Flatten(ss) == IF ss = <<>> THEN <<>> ELSE Head(ss) \o Flatten(Tail(ss))

\* ------------------------------------------------------------------------
\* Commenters (ast/commenter.go, comment.go)
\* ------------------------------------------------------------------------
Trigger == <<"#">>

CommenterIds == {"Lisp", "Cpp", "C"}

CommenterBegin(c) ==
  CASE c = "Lisp" -> <<";">>
    [] c = "Cpp" -> <<"/", "/">>
    [] c = "C" -> <<"/", "*">>

CommenterEnd(c) ==
  CASE c = "Lisp" -> <<>>
    [] c = "Cpp" -> <<>>
    [] c = "C" -> <<"*", "/">>

\* Commenter.IsComment: the rest of the input at offset k starts with Begin.
CommenterIsComment(c, inp, k) == HasPrefixAt(inp, k, CommenterBegin(c))

\* Commenters.IsComment
IsComment(cs, inp, k) ==
  \E i \in 1..Len(cs) : CommenterIsComment(cs[i], inp, k)

\* Commenters.First: the first registered commenter that matches.
First(cs, inp, k) ==
  LET i == CHOOSE j \in 1..Len(cs) :
             /\ CommenterIsComment(cs[j], inp, k)
             /\ \A h \in 1..(j - 1) : ~CommenterIsComment(cs[h], inp, k)
  IN cs[i]

\* ------------------------------------------------------------------------
\* The scanner (ast/lexer.go).  A scanner is the part [inp, start, pos,
\* lstate, toks] of a frame: the input, the start of the pending token, the
\* read offset, the next state function and the tokens emitted so far.
\* ------------------------------------------------------------------------

\* lex.Lexer.Emit: the pending text input[start:pos] becomes a token.
EmitTok(f, t) ==
  [f EXCEPT !.toks = Append(@, [type |-> t,
                                 val |-> SubSeq(f.inp, f.start + 1, f.pos),
                                 msg |-> "",
                                 line |-> LineAt(f.inp, f.start),
                                 col |-> ColAt(f.inp, f.start)]),
            !.start = f.pos]

\* lex.Lexer.Errorf: an Error token ends the scan.
Errorf(f, m) ==
  [f EXCEPT !.toks = Append(@, [type |-> "Error",
                                 val |-> <<>>,
                                 msg |-> m,
                                 line |-> LineAt(f.inp, f.start),
                                 col |-> ColAt(f.inp, f.start)]),
            !.lstate = "nil"]

EmitIfPending(f, t) == IF f.pos - f.start > 0 THEN EmitTok(f, t) ELSE f

\* lex.Lexer.AcceptRun / AcceptFuncRun: offset after the run starting at k.
RECURSIVE AcceptRun(_, _, _)
AcceptRun(inp, k, spaces) ==
  IF k < Len(inp) /\ (IF spaces THEN IsSpace(inp[k + 1])
                                ELSE IsAlphaNumeric(inp[k + 1]))
  THEN AcceptRun(inp, k + 1, spaces)
  ELSE k

\* The leading-space offset that lexText restores before it emits the text
\* in front of a trigger (l.Dec(n)).
TextEndBeforeTrigger(p, q) == p

\* A scanner that calls l.Ignore() after a failed trigger guess.
TextStartIgnoresGuess(f, q) == q

\* The text that lexText keeps pending after a failed trigger guess: the
\* accepted whitespace stays part of the next Text token.
TextStartAfterGuess(f, q) == f.start

\* A scanner that accepts the trigger wherever it stands.
TriggerAllowedAnywhere(inp, q, n) == TRUE

\* l.Pos() == n || l.Input(-n - 1)[0] == '\n': the run of n spaces that ends
\* at offset q starts the input or follows a newline.
TriggerAllowed(inp, q, n) == q = n \/ inp[q - n] = NL

\* lexText: one call of the state function, scanning on from offset p.
RECURSIVE lexTextFrom(_, _, _)
lexTextFrom(cs, f, p) ==
  LET q == AcceptRun(f.inp, p, TRUE)
      n == q - p
  IN IF HasPrefixAt(f.inp, q, Trigger) /\ TriggerAllowed(f.inp, q, n)
     THEN LET g == EmitIfPending([f EXCEPT !.pos = TextEndBeforeTrigger(p, q)],
                                 "Text")
          IN [g EXCEPT !.pos = q, !.start = q, !.lstate = "lexActionBegin"]
     ELSE IF IsComment(cs, f.inp, q)
     THEN [EmitIfPending([f EXCEPT !.pos = q], "Text")
             EXCEPT !.lstate = "lexComment"]
     ELSE IF q >= Len(f.inp)
     THEN [EmitTok(EmitIfPending([f EXCEPT !.pos = q], "Text"), "EOF")
             EXCEPT !.lstate = "nil"]
     ELSE lexTextFrom(cs, [f EXCEPT !.start = TextStartAfterGuess(f, q)],
                      q + 1)

lexText(cs, f) == lexTextFrom(cs, f, f.pos)

\* The loop of lexComment: the offset after the end delimiter, or the end
\* of the input when the delimiter never comes.
RECURSIVE ConsumeUntil(_, _, _)
ConsumeUntil(inp, k, end) ==
  IF HasPrefixAt(inp, k, end) THEN k + Len(end)
  ELSE IF k >= Len(inp) THEN k
  ELSE ConsumeUntil(inp, k + 1, end)

\* A scanner that ends every comment at the end of its line.
CommentEndAtLine(c, inp, k) ==
  LET e == ConsumeUntil(inp, k + Len(CommenterBegin(c)), <<NL>>)
  IN IF CommenterEnd(c) = <<>> THEN e - 1 ELSE e

\* Where lexComment leaves the read offset: an end-of-line comment gives
\* back one character (l.Dec(1)), meant to be the newline.
CommentEnd(c, inp, k) ==
  LET end == IF CommenterEnd(c) = <<>> THEN <<NL>> ELSE CommenterEnd(c)
      e == ConsumeUntil(inp, k + Len(CommenterBegin(c)), end)
  IN IF CommenterEnd(c) = <<>> THEN e - 1 ELSE e

\* A scanner that drops every comment, whatever its Strip flag.
CommentTokenDropped(f, stripped) == [f EXCEPT !.start = f.pos]

\* What lexComment does with the span: dropped or emitted.
CommentToken(f, stripped) ==
  IF stripped THEN [f EXCEPT !.start = f.pos] ELSE EmitTok(f, "Comment")

lexComment(cs, strp, f) ==
  LET c == First(cs, f.inp, f.pos)
      g == CommentToken([f EXCEPT !.pos = CommentEnd(c, f.inp, f.pos)],
                        strp[c])
  IN IF g.pos >= Len(g.inp)
     THEN [EmitTok(g, "EOF") EXCEPT !.lstate = "nil"]
     ELSE [g EXCEPT !.lstate = "lexText"]

lexActionBegin(f) ==
  [EmitTok([f EXCEPT !.pos = f.pos + Len(Trigger)], "ActionBegin")
     EXCEPT !.lstate = "lexInsideAction"]

lexActionEnd(f) ==
  IF HasPrefixAt(f.inp, f.pos, <<NL>>)
  THEN [EmitTok([f EXCEPT !.pos = f.pos + 1], "ActionEnd")
          EXCEPT !.lstate = "lexText"]
  ELSE IF HasPrefixAt(f.inp, f.pos, <<CR, NL>>)
  THEN [EmitTok([f EXCEPT !.pos = f.pos + 2], "ActionEnd")
          EXCEPT !.lstate = "lexText"]
  ELSE Errorf(f, "malformed end-of-line")

lexSpace(f) ==
  LET q == AcceptRun(f.inp, f.pos, TRUE)
  IN [f EXCEPT !.pos = q, !.start = q, !.lstate = "lexInsideAction"]

\* A scanner that ends the string at the first double quote, escaped or
\* not.
RECURSIVE QuoteCloseNoEscape(_, _)
QuoteCloseNoEscape(inp, k) ==
  LET r == RuneAt(inp, k)
  IN IF r \in {EOF, NL} THEN -1
     ELSE IF r = DQ THEN k
     ELSE QuoteCloseNoEscape(inp, k + 1)

\* The loop of lexQuote from offset k: the offset of the closing quote, or
\* -1 when the string is not terminated on its line.
RECURSIVE QuoteClose(_, _)
QuoteClose(inp, k) ==
  LET r == RuneAt(inp, k)
  IN IF r = BS
     THEN IF RuneAt(inp, k + 1) \in {EOF, NL} THEN -1
          ELSE QuoteClose(inp, k + 2)
     ELSE IF r \in {EOF, NL} THEN -1
     ELSE IF r = DQ THEN k
     ELSE QuoteClose(inp, k + 1)

lexQuote(f) ==
  IF RuneAt(f.inp, f.pos) # DQ
  THEN Errorf([f EXCEPT !.pos = f.pos + 1], "only support double-quoted strings")
  ELSE LET k == QuoteClose(f.inp, f.pos + 1)
       IN IF k < 0
          THEN Errorf([f EXCEPT !.start = f.pos + 1],
                      "unterminated quoted string")
          ELSE [EmitTok([f EXCEPT !.start = f.pos + 1, !.pos = k], "String")
                  EXCEPT !.pos = k + 1, !.start = k + 1,
                         !.lstate = "lexInsideAction"]

lexAlphaNumeric(f) ==
  [EmitTok([f EXCEPT !.pos = AcceptRun(f.inp, f.pos, FALSE)], "Ident")
     EXCEPT !.lstate = "lexInsideAction"]

lexInsideAction(f) ==
  LET r == RuneAt(f.inp, f.pos)
  IN CASE IsEndline(r) -> [f EXCEPT !.lstate = "lexActionEnd"]
       [] IsSpace(r) -> [f EXCEPT !.lstate = "lexSpace"]
       [] IsQuote(r) -> [f EXCEPT !.lstate = "lexQuote"]
       [] IsAlphaNumeric(r) -> [f EXCEPT !.lstate = "lexAlphaNumeric"]
       [] r = "!" -> EmitTok([f EXCEPT !.pos = f.pos + 1], "Excl")
       [] r = "/" -> EmitTok([f EXCEPT !.pos = f.pos + 1], "Slash")
       [] r = EOF -> Errorf(f, "unexpected EOF")
       [] OTHER -> Errorf(f, "unexpected rune")

\* ------------------------------------------------------------------------
\* The file system seen by ioutil.ReadFile, filepath.Abs and
\* filepath.EvalSymlinks.  RootName is the top-level file; its content is
\* the root text of the run.  LinkName is a symbolic link to XName.
\* ------------------------------------------------------------------------
kwInclude == <<"i","n","c","l","u","d","e">>
kwRequire == <<"r","e","q","u","i","r","e">>
kwError == <<"e","r","r","o","r">>

Directive(kw, arg) == Trigger \o kw \o <<SP, DQ>> \o arg \o <<DQ, NL>>

RootName == <<"r">>
StringName == <<"i","n","t","e","r","n","a","l">>
XName == <<"x">>
LinkName == <<"l">>
MissingName == <<"m">>

FileData(name) ==
  CASE name = <<"x">> -> <<"X", "/", "/", "k", NL, "Y", NL>>
    [] name = <<"s">> -> Directive(kwInclude, <<"t">>)
    [] name = <<"t">> -> Directive(kwInclude, <<"s">>)
    [] name = <<"p">> -> <<"p", NL>> \o Directive(kwRequire, <<"q">>)
    [] name = <<"q">> -> Directive(kwRequire, <<"p">>) \o <<"q", NL>>
    [] name = <<"e">> -> <<"e", NL>> \o Directive(kwError, <<"E">>)
    [] name = <<"b">> -> Directive(kwRequire, <<"x">>) \o <<"b", NL>>
    [] name = <<"y">> -> <<"y", NL>> \o Directive(kwRequire, <<"r">>)
    [] OTHER -> <<>>

FileNames ==
  {<<"x">>, <<"s">>, <<"t">>, <<"p">>, <<"q">>, <<"e">>, <<"b">>, <<"y">>}

\* filepath.EvalSymlinks(filepath.Abs(name)): the canonical identity.
Canon(name) == IF name = LinkName THEN XName ELSE name

\* ioutil.ReadFile succeeds.
Readable(name) == Canon(name) \in FileNames \cup {RootName}

ReadFile(name, rootText) ==
  IF Canon(name) = RootName THEN rootText ELSE FileData(Canon(name))

\* filepath.Dir: the name up to its last slash, "." without one.
RECURSIVE LastSlash(_, _)
LastSlash(name, k) ==
  IF k = 0 THEN 0 ELSE IF name[k] = "/" THEN k ELSE LastSlash(name, k - 1)

Dir(name) ==
  LET k == LastSlash(name, Len(name))
  IN IF k = 0 THEN <<".">> ELSE SubSeq(name, 1, k - 1)

\* filepath.Join(dir, arg) for a relative arg.
Join(dir, arg) == IF dir = <<".">> THEN arg ELSE dir \o <<"/">> \o arg

\* ------------------------------------------------------------------------
\* Errors.  pos lists the PosInfo of the Error wrappers, outermost first;
\* a bare error value has none.
\* ------------------------------------------------------------------------
NoErr == [msg |-> "", val |-> <<>>, pos |-> <<>>]
Err(m) == [msg |-> m, val |-> <<>>, pos |-> <<>>]
ErrV(m, v) == [msg |-> m, val |-> v, pos |-> <<>>]
ErrMaxDepthExceeded == Err("maximum include depth exceeded")
errRequireIgnore == Err("ignoring file because already read")
ErrUnreadable == Err("open: no such file")

\* &Error{err, posInfo(r)}
WrapError(e, pi) == [e EXCEPT !.pos = <<pi>> \o @]

\* ------------------------------------------------------------------------
\* State
\* ------------------------------------------------------------------------
VARIABLES
  strip,         \* Commenter.Strip of each predefined Commenter object
  plan,          \* the AddCommenter calls the client still makes
  pcomm,         \* Processor.Commenters, copied into Parser.Commenters
  root,          \* the pieces of the top-level text given to the Processor
  mode,          \* "Parse" or "ParseString": the call that started the run
  pc,            \* "config", "run" or "done"
  nodes,         \* the FileNode objects; a *FileNode is an index, 0 is nil
  nod,           \* Parser.nod
  files,         \* Parser.files
  includeDepth,  \* Parser.includeDepth
  stack,         \* the active parse loops, innermost last
  result,        \* what Processor.Parse / ParseString returned
  prev,          \* the outcome of the run before the client edited the root
  ocomm          \* Processor.Commenters of a second Processor

vars ==
  <<strip, plan, pcomm, root, mode, pc, nodes, nod, files, includeDepth,
    stack, result, prev, ocomm>>

\* The top-level text, and the content of the file RootName.
src == Flatten(root)

\* ------------------------------------------------------------------------
\* The node tree (ast/nodes.go)
\* ------------------------------------------------------------------------
PosInfo(n, l, c) == [name |-> n, line |-> l, col |-> c]

TextNode(pi, v) == [t |-> "text", val |-> v, pi |-> pi, id |-> 0]
CommentNode(pi, v) == [t |-> "comment", val |-> v, pi |-> pi, id |-> 0]
FileRef(i) == [t |-> "file", val |-> <<>>, pi |-> PosInfo(<<>>, 0, 0), id |-> i]

\* unique is not a field of the Go struct: it records the parseFile argument
\* the node was created under.
FileNode(pi, name, path, parent, unique) ==
  [pi |-> pi, name |-> name, path |-> path, root |-> parent, kids |-> <<>>,
   unique |-> unique]

\* FileNode.addNode
addNode(ns, i, k) == [ns EXCEPT ![i].kids = Append(@, k)]

\* FileNode.String: the concatenation of the children's text.
RECURSIVE String(_, _)
RECURSIVE StringKids(_, _)
StringKids(ns, ks) ==
  IF ks = <<>> THEN <<>>
  ELSE (IF Head(ks).t = "file" THEN String(ns, Head(ks).id) ELSE Head(ks).val)
       \o StringKids(ns, Tail(ks))
String(ns, i) == StringKids(ns, ns[i].kids)

\* Len of a child: the length of its text.
RECURSIVE NodeLen(_, _)
RECURSIVE LenKids(_, _)
LenKids(ns, ks) ==
  IF ks = <<>> THEN 0 ELSE NodeLen(ns, Head(ks)) + LenKids(ns, Tail(ks))
NodeLen(ns, k) == IF k.t = "file" THEN LenKids(ns, ns[k.id].kids) ELSE Len(k.val)

\* A *PosInfo result is <<>> for nil and <<pi>> otherwise.

\* PosInfo.OffsetIn(data, offset)
OffsetIn(p, data, offset) ==
  IF offset > Len(data) THEN <<>>
  ELSE LET i == LastNL(data, offset)
       IN <<PosInfo(p.name, p.line + CountNL(data, offset),
                    IF i > 0 THEN offset - (i - 1) ELSE 1 + offset)>>

\* PosInfo.OffsetInLC(data, line, col)
OffsetInLC(p, data, line, col) ==
  IF CountNL(data, Len(data)) <= line - 1 THEN <<>>
  ELSE <<PosInfo(p.name, p.line + (line - 1), p.col + (col - 1))>>

\* FileNode.Offset(offset): the first child that knows the offset, the
\* offset lowered by the length of every child that does not.
RECURSIVE Offset(_, _, _)
RECURSIVE OffsetKids(_, _, _)
OffsetKids(ns, ks, offset) ==
  IF ks = <<>> THEN <<>>
  ELSE LET k == Head(ks)
           pi == IF k.t = "file" THEN Offset(ns, k.id, offset)
                 ELSE OffsetIn(k.pi, k.val, offset)
       IN IF pi # <<>> THEN pi
          ELSE OffsetKids(ns, Tail(ks), offset - NodeLen(ns, k))
Offset(ns, i, offset) == OffsetKids(ns, ns[i].kids, offset)

\* FileNode.OffsetLC(line, col): the first child that knows the line, the
\* line lowered by the newlines of every child that does not.
RECURSIVE OffsetLC(_, _, _, _)
RECURSIVE OffsetLCKids(_, _, _, _)
OffsetLCKids(ns, ks, line, col) ==
  IF ks = <<>> THEN <<>>
  ELSE LET k == Head(ks)
           text == IF k.t = "file" THEN String(ns, k.id) ELSE k.val
           pi == IF k.t = "file" THEN OffsetLC(ns, k.id, line, col)
                 ELSE OffsetInLC(k.pi, k.val, line, col)
       IN IF pi # <<>> THEN pi
          ELSE OffsetLCKids(ns, Tail(ks), line - CountNL(text, Len(text)), col)
OffsetLC(ns, i, line, col) == OffsetLCKids(ns, ns[i].kids, line, col)

\* ------------------------------------------------------------------------
\* The token reader (lex.Reader) of a frame
\* ------------------------------------------------------------------------
NewFrame(kind, name, data) ==
  [kind |-> kind, name |-> name, inp |-> data, start |-> 0, pos |-> 0,
   lstate |-> "lexText", toks |-> <<>>, fn |-> "parseNext", err |-> NoErr,
   cur |-> [line |-> 0, col |-> 0]]

EofTok == [type |-> "EOF", val |-> <<>>, msg |-> "", line |-> 0, col |-> 0]

\* Reader.Peek
PeekTok(f) == IF f.toks = <<>> THEN EofTok ELSE Head(f.toks)

\* Reader.Next: the frame after the token was taken.
Advance(f) ==
  IF f.toks = <<>> THEN f
  ELSE [f EXCEPT !.toks = Tail(@),
                 !.cur = [line |-> Head(f.toks).line, col |-> Head(f.toks).col]]

\* posInfo(r): the position of the token read last.
posInfo(f) == PosInfo(f.name, f.cur.line, f.cur.col)

\* Reader.Expect(t1, t2)
Expect(f, t1, t2) ==
  LET a == PeekTok(f)
      f1 == Advance(f)
      b == PeekTok(f1)
      f2 == Advance(f1)
  IN IF a.type # t1 THEN [ok |-> FALSE, args |-> <<>>, f |-> f1]
     ELSE IF b.type # t2 THEN [ok |-> FALSE, args |-> <<a>>, f |-> f2]
     ELSE [ok |-> TRUE, args |-> <<a, b>>, f |-> f2]

\* The scanner runs when the parser asks for a token that is not there yet.
HasType(toks, t) == \E i \in 1..Len(toks) : toks[i].type = t

Ready(f) ==
  \/ f.lstate = "nil"
  \/ f.fn \in {"parseNext", "parseText", "parseComment"} /\ Len(f.toks) >= 1
  \/ f.fn \in {"parseAction", "parseCmdInclude", "parseCmdRequire",
               "parseCmdError"} /\ Len(f.toks) >= 2
  \/ f.fn = "parseShebang" /\ HasType(f.toks, "ActionEnd")

\* ------------------------------------------------------------------------
\* The parse loop:  for fn := p.parseNext; fn != nil; { fn, err = fn(r) ... }
\* ------------------------------------------------------------------------

\* The loop of ast/parser.go, which breaks on every error.
FatalAnyError(e) == e # NoErr

\* A loop that goes on after every error.
FatalNever(e) == FALSE

\* The loop's break condition.
Fatal(e) == e # NoErr /\ e # errRequireIgnore

\* One turn of the loop returned (fn, e): the frame goes on with fn, or
\* leaves the loop ("return").
Step(f, fn, e) ==
  [f EXCEPT !.fn = IF Fatal(e) \/ fn = "nil" THEN "return" ELSE fn,
            !.err = e]

Top == stack[Len(stack)]
SetTop(g) == [stack EXCEPT ![Len(stack)] = g]
Callers == SubSeq(stack, 1, Len(stack) - 1)

Scanning == pc = "run" /\ stack # <<>> /\ Top.fn # "return" /\ ~Ready(Top)
Parsing(fn) == pc = "run" /\ stack # <<>> /\ Top.fn = fn /\ Ready(Top)

ScanStep(state, g) ==
  /\ Scanning
  /\ Top.lstate = state
  /\ stack' = SetTop(g)
  /\ UNCHANGED <<strip, plan, pcomm, root, mode, pc, nodes, nod, files,
                 includeDepth, result, prev, ocomm>>

StepLexText == ScanStep("lexText", lexText(pcomm, Top))
StepLexComment == ScanStep("lexComment", lexComment(pcomm, strip, Top))
StepLexActionBegin == ScanStep("lexActionBegin", lexActionBegin(Top))
StepLexActionEnd == ScanStep("lexActionEnd", lexActionEnd(Top))
StepLexSpace == ScanStep("lexSpace", lexSpace(Top))
StepLexQuote == ScanStep("lexQuote", lexQuote(Top))
StepLexInsideAction == ScanStep("lexInsideAction", lexInsideAction(Top))
StepLexAlphaNumeric == ScanStep("lexAlphaNumeric", lexAlphaNumeric(Top))

\* ------------------------------------------------------------------------
\* The directive parser (ast.Parser)
\* ------------------------------------------------------------------------
ParserFrame == <<strip, plan, pcomm, root, mode, prev, ocomm>>

\* A parse function that only reads tokens: the frame goes on as g.
ParseStep(fn, g) ==
  /\ Parsing(fn)
  /\ stack' = SetTop(g)
  /\ UNCHANGED <<ParserFrame, pc, nodes, nod, files, includeDepth, result>>

parseNext ==
  LET tok == PeekTok(Top)
  IN ParseStep("parseNext",
       CASE tok.type = "Text" -> Step(Top, "parseText", NoErr)
         [] tok.type = "Comment" -> Step(Top, "parseComment", NoErr)
         [] tok.type = "ActionBegin" -> Step(Top, "parseAction", NoErr)
         [] tok.type = "Error" -> Step(Top, "nil", Err(tok.msg))
         [] tok.type = "EOF" -> Step(Top, "nil", NoErr)
         [] OTHER -> Step(Top, "nil", Err("unexpected token")))

\* parseText and parseComment append a node to the current file.
AppendStep(fn) ==
  /\ Parsing(fn)
  /\ Len(nodes[nod].kids) < MaxKids
  /\ LET t == PeekTok(Top)
         g == Advance(Top)
         k == IF fn = "parseText" THEN TextNode(posInfo(g), t.val)
              ELSE CommentNode(posInfo(g), t.val)
     IN /\ nodes' = addNode(nodes, nod, k)
        /\ stack' = SetTop(Step(g, "parseNext", NoErr))
  /\ UNCHANGED <<ParserFrame, pc, nod, files, includeDepth, result>>

parseText == AppendStep("parseText")
parseComment == AppendStep("parseComment")

\* A parser that takes every unknown identifier for include.
CommandDefaultInclude(cmd) ==
  CASE cmd = kwRequire -> "parseCmdRequire"
    [] cmd = kwError -> "parseCmdError"
    [] OTHER -> "parseCmdInclude"

\* The command a directive names.
Command(cmd) ==
  CASE cmd = kwInclude -> "parseCmdInclude"
    [] cmd = kwRequire -> "parseCmdRequire"
    [] cmd = kwError -> "parseCmdError"
    [] OTHER -> "nil"

parseAction ==
  LET f1 == Advance(Top)
      tok == PeekTok(f1)
      f2 == Advance(f1)
  IN ParseStep("parseAction",
       IF tok.type = "Excl" THEN Step(f1, "parseShebang", NoErr)
       ELSE IF tok.type # "Ident"
       THEN Step(f2, "nil", Err("expecting command identifier"))
       ELSE IF Command(tok.val) = "nil"
       THEN Step(f2, "nil", ErrV("unknown command", tok.val))
       ELSE Step(f2, Command(tok.val), NoErr))

\* The loop of parseShebang: the tokens after the first ActionEnd, or
\* <<>> with failure when the tokens end before one comes.
RECURSIVE SkipLine(_)
SkipLine(toks) ==
  IF toks = <<>> \/ Head(toks).type = "EOF" THEN [ok |-> FALSE, toks |-> <<>>]
  ELSE IF Head(toks).type = "ActionEnd" THEN [ok |-> TRUE, toks |-> Tail(toks)]
  ELSE SkipLine(Tail(toks))

parseShebang ==
  LET x == Expect(Top, "Excl", "Slash")
      rest == SkipLine(x.f.toks)
  IN ParseStep("parseShebang",
       IF ~x.ok
       THEN Step(x.f, "nil",
                 Err("shebang paths are absolute, expecting slash '/'"))
       ELSE IF posInfo(x.f).line # 1
       THEN Step(x.f, "nil", Err("shebang only valid on first line of file"))
       ELSE IF ~rest.ok
       THEN Step([x.f EXCEPT !.toks = <<>>], "nil", Err("unexpected EOF"))
       ELSE Step([x.f EXCEPT !.toks = rest.toks], "parseNext", NoErr))

parseCmdError ==
  LET x == Expect(Top, "String", "ActionEnd")
  IN ParseStep("parseCmdError",
       IF ~x.ok
       THEN Step(x.f, "nil", Err("command error takes a single string argument"))
       ELSE Step(x.f, "nil", ErrV("error directive", x.args[1].val)))

\* ------------------------------------------------------------------------
\* The include resolver (Parser.parseFile)
\* ------------------------------------------------------------------------

\* A resolver that lets one more level in.
DepthExceededLate(depth) == depth > MaxIncludeDepth

\* if p.includeDepth >= p.MaxIncludeDepth
DepthExceeded(depth) == depth >= MaxIncludeDepth

\* A resolver that consults the visited set for include as well.
AlreadyReadAnyCaller(unique, path, visited) == path \in visited

\* if unique { ... else if p.files[path] { return errRequireIgnore } }
AlreadyRead(unique, path, visited) == unique /\ path \in visited

\* A resolver that never records a required path.
MarkReadNever(unique, path, visited) == visited

\* if unique { ... p.files[path] = true }
MarkRead(unique, path, visited) ==
  IF unique THEN visited \cup {path} ELSE visited

\* What Processor.Parse and Processor.ParseString hand to the caller:
\* nod := parser.Root(); return nod, err
ProcessorReturn(n, e) == [nod |-> n, err |-> e]

\* parseFile returns e to its caller: the parse function that called it
\* returns (p.parseNext, e) to the loop of the frame below, and without a
\* frame below the top-level call returns.
ReturnTo(base, n, e) ==
  IF base = <<>>
  THEN /\ pc' = "done"
       /\ result' = ProcessorReturn(n, e)
       /\ stack' = <<>>
  ELSE /\ stack' = [base EXCEPT ![Len(base)] = Step(@, "parseNext", e)]
       /\ UNCHANGED <<pc, result>>

\* parseFile(name, pi, unique), called with the frames in base below it, up
\* to the start of the file's parse loop.
parseFileEnter(name, pi, unique, base) ==
  LET path == Canon(name)
  IN IF DepthExceeded(includeDepth)
     THEN /\ ReturnTo(base, nod, ErrMaxDepthExceeded)
          /\ UNCHANGED <<nodes, nod, files, includeDepth>>
     ELSE IF ~Readable(name)
     THEN /\ ReturnTo(base, nod, ErrUnreadable)
          /\ UNCHANGED <<nodes, nod, files, includeDepth>>
     ELSE IF AlreadyRead(unique, path, files)
     THEN /\ ReturnTo(base, nod, errRequireIgnore)
          /\ UNCHANGED <<nodes, nod, files, includeDepth>>
     ELSE /\ files' = MarkRead(unique, path, files)
          /\ nodes' = Append(IF nod # 0
                             THEN addNode(nodes, nod, FileRef(Len(nodes) + 1))
                             ELSE nodes,
                             FileNode(pi, name, path, nod, unique))
          /\ nod' = Len(nodes) + 1
          /\ includeDepth' = includeDepth + 1
          /\ stack' = Append(base, NewFrame("file", name, ReadFile(name, src)))
          /\ UNCHANGED <<pc, result>>

\* parseCmdInclude and parseCmdRequire
parseCmdFile(fn, unique, msg) ==
  /\ Parsing(fn)
  /\ LET pi == posInfo(Top)
         x == Expect(Top, "String", "ActionEnd")
     IN IF ~x.ok
        THEN /\ stack' = SetTop(Step(x.f, "nil", Err(msg)))
             /\ UNCHANGED <<pc, nodes, nod, files, includeDepth, result>>
        ELSE parseFileEnter(Join(Dir(nodes[nod].name), x.args[1].val), pi,
                            unique, SetTop(x.f))
  /\ UNCHANGED ParserFrame

parseCmdInclude ==
  parseCmdFile("parseCmdInclude", FALSE,
               "command include takes a single string argument")

parseCmdRequire ==
  parseCmdFile("parseCmdRequire", TRUE,
               "command require takes a single string argument")

\* The error a finished parse loop hands on: wrapped with the position.
LoopError(f) == IF f.err # NoErr THEN WrapError(f.err, posInfo(f)) ELSE NoErr

\* A resolver that leaves the included file as the current node.
RestoreNever(ns, n) == n

\* if p.nod.root != nil { p.nod = p.nod.root }
Restore(ns, n) == IF ns[n].root # 0 THEN ns[n].root ELSE n

\* The end of parseFile, after its parse loop.
parseFileReturn ==
  /\ pc = "run" /\ stack # <<>>
  /\ Top.fn = "return" /\ Top.kind = "file"
  /\ includeDepth' = includeDepth - 1
  /\ nod' = Restore(nodes, nod)
  /\ ReturnTo(Callers, Restore(nodes, nod), LoopError(Top))
  /\ UNCHANGED <<ParserFrame, nodes, files>>

\* The end of Parser.ParseString, after its parse loop.
ParseStringReturn ==
  /\ pc = "run" /\ stack # <<>>
  /\ Top.fn = "return" /\ Top.kind = "string"
  /\ ReturnTo(<<>>, nod, LoopError(Top))
  /\ UNCHANGED <<ParserFrame, nodes, nod, files, includeDepth>>

\* ------------------------------------------------------------------------
\* The Processor and its client
\* ------------------------------------------------------------------------
NoPrev ==
  [valid |-> FALSE, mode |-> "none", name |-> <<>>, root |-> <<>>,
   del |-> 0, out |-> <<>>, err |-> NoErr, count |-> 0]

\* Processor.AddCommenter(c, strip): sets the flag on the Commenter object
\* it is given and appends the object to the list.
AddCommenter ==
  /\ pc = "config" /\ plan # <<>>
  /\ strip' = [strip EXCEPT ![Head(plan)[1]] = Head(plan)[2]]
  /\ pcomm' = Append(pcomm, Head(plan)[1])
  /\ plan' = Tail(plan)
  /\ UNCHANGED <<root, mode, pc, nodes, nod, files, includeDepth, stack,
                 result, prev, ocomm>>

\* Processor.ParseString(name, code): newParser, then Parser.ParseString up
\* to the start of its parse loop.
ParseString ==
  /\ pc = "config" /\ plan = <<>>
  /\ mode' = "ParseString"
  /\ pc' = "run"
  /\ nodes' = <<FileNode(PosInfo(StringName, 0, 0), StringName, <<>>, 0, FALSE)>>
  /\ nod' = 1
  /\ files' = {}
  /\ includeDepth' = 0
  /\ stack' = <<NewFrame("string", StringName, src)>>
  /\ result' = ProcessorReturn(0, NoErr)
  /\ UNCHANGED <<strip, plan, pcomm, root, prev, ocomm>>

\* Processor.Parse(path): newParser, then Parser.Parse, which is
\* parseFile(path, PosInfo{Name: path}, true).
Parse ==
  /\ pc = "config" /\ plan = <<>>
  /\ \E path \in {RootName, MissingName} :
       /\ mode' = "Parse"
       /\ IF DepthExceeded(0)
             THEN /\ pc' = "done"
                  /\ result' = ProcessorReturn(0, ErrMaxDepthExceeded)
                  /\ nodes' = <<>> /\ nod' = 0 /\ files' = {}
                  /\ includeDepth' = 0 /\ stack' = <<>>
             ELSE IF ~Readable(path)
             THEN /\ pc' = "done"
                  /\ result' = ProcessorReturn(0, ErrUnreadable)
                  /\ nodes' = <<>> /\ nod' = 0 /\ files' = {}
                  /\ includeDepth' = 0 /\ stack' = <<>>
             ELSE /\ pc' = "run"
                  /\ result' = ProcessorReturn(0, NoErr)
                  /\ files' = MarkRead(TRUE, Canon(path), {})
                  /\ nodes' = <<FileNode(PosInfo(path, 0, 0), path,
                                         Canon(path), 0, TRUE)>>
                  /\ nod' = 1
                  /\ includeDepth' = 1
                  /\ stack' = <<NewFrame("file", path, ReadFile(path, src))>>
  /\ UNCHANGED <<strip, plan, pcomm, root, prev, ocomm>>

\* A piece of the root text that is a require directive line.
IsRequireLine(piece) ==
  /\ Len(piece) > Len(Trigger \o kwRequire)
  /\ SubSeq(piece, 1, Len(Trigger \o kwRequire)) = Trigger \o kwRequire

DeleteAt(seq, i) == SubSeq(seq, 1, i - 1) \o SubSeq(seq, i + 1, Len(seq))

\* The rendered text a caller gets from the returned node.
Output == IF result.nod = 0 THEN <<>> ELSE String(nodes, result.nod)

\* The client deletes one require line of the text it has processed, keeps
\* the first outcome for comparison and processes the edited text.
EditRoot ==
  /\ pc = "done" /\ ~prev.valid /\ nodes # <<>>
  /\ \E i \in 1..Len(root) :
       /\ IsRequireLine(root[i])
       /\ prev' = [valid |-> TRUE, mode |-> mode, name |-> nodes[1].name,
                   root |-> root, del |-> i, out |-> Output,
                   err |-> result.err, count |-> Len(nodes)]
       /\ root' = DeleteAt(root, i)
  /\ pc' = "config"
  /\ UNCHANGED <<strip, plan, pcomm, mode, nodes, nod, files, includeDepth,
                 stack, result, ocomm>>

\* The client keeps the outcome of a call and makes the same call on the
\* same text again.
Reprocess ==
  /\ pc = "done" /\ ~prev.valid /\ nodes # <<>>
  /\ prev' = [valid |-> TRUE, mode |-> mode, name |-> nodes[1].name,
              root |-> root, del |-> 0, out |-> Output,
              err |-> result.err, count |-> Len(nodes)]
  /\ pc' = "config"
  /\ UNCHANGED <<strip, plan, pcomm, root, mode, nodes, nod, files,
                 includeDepth, stack, result, ocomm>>

\* Processor.AddCommenter(c, strip) of a second Processor, called with one
\* of the predefined Commenters between two calls of the first Processor.
OtherAddCommenter ==
  /\ pc \in {"config", "done"}
  /\ Len(ocomm) < MaxOther
  /\ \E c \in CommenterIds, s \in BOOLEAN :
       /\ strip' = [strip EXCEPT ![c] = s]
       /\ ocomm' = Append(ocomm, c)
  /\ UNCHANGED <<plan, pcomm, root, mode, pc, nodes, nod, files,
                 includeDepth, stack, result, prev>>

\* ------------------------------------------------------------------------
\* Inputs
\* ------------------------------------------------------------------------

\* The AddCommenter sequences of the clients: none, TestSimple's, the same
\* keeping the comments, TestParser's and the same keeping the comments.
Setups ==
  { <<>>,
    << <<"Cpp", TRUE>> >>,
    << <<"Cpp", FALSE>> >>,
    << <<"C", TRUE>>, <<"Cpp", TRUE>> >>,
    << <<"C", FALSE>>, <<"Cpp", FALSE>> >> }

\* The single-character end-of-line commenter, stripping and keeping.
LispSetups == { << <<"Lisp", TRUE>> >>, << <<"Lisp", FALSE>> >> }

IncludeSetups == { <<>>, << <<"C", TRUE>>, <<"Cpp", TRUE>> >> }

TextChars == {SP, NL, "#", "/", "*"}
LispChars == {SP, NL, "#", ";"}

TextsOver(chars) == UNION {[1..n -> chars] : n \in 0..MaxLen}

TextLine == <<"t", NL>>
IncX == Directive(kwInclude, <<"x">>)
ReqX == Directive(kwRequire, <<"x">>)
ReqL == Directive(kwRequire, <<"l">>)
IncB == Directive(kwInclude, <<"b">>)
IncE == Directive(kwInclude, <<"e">>)
IncM == Directive(kwInclude, <<"m">>)

LineKinds ==
  { TextLine, IncX, ReqX, ReqL, IncB,
    Directive(kwInclude, <<"s">>),
    Directive(kwRequire, <<"p">>),
    Directive(kwInclude, <<"r">>),
    Directive(kwRequire, <<"r">>) }

Roots == UNION {[1..n -> LineKinds] : n \in 0..MaxLines}

\* Fixed texts that reach the directive, shebang and error paths, and
\* longer include and require structures.
Samples ==
  { << <<"#", "!", "/", "x", NL>>, TextLine >>,
    << TextLine, <<"#", "!", "/", NL>> >>,
    << Directive(kwError, <<"E">>) >>,
    << <<"/", "/", "c", NL>>, ReqX, <<"/", "*">> >>,
    << <<"#", "x", SP, "'", NL>> >>,
    << IncX, <<SP, "#", kwInclude[1], CR, NL>> >>,
    << TextLine, IncX, TextLine >>,
    << TextLine, ReqX, ReqL, TextLine >>,
    << ReqX, TextLine, IncB, ReqX, TextLine >>,
    << TextLine, IncE, TextLine >>,
    << IncX, IncM, TextLine >>,
    << IncB, IncX, ReqL, IncX >> }

\* What can follow the identifier of a directive other than one string and
\* the end of the line: nothing, two strings, an identifier, a string and
\* the end of the input, a single quote, a slash, an exclamation mark, and
\* a string that is not closed before the end of the line or of the input.
UnclosedTails ==
  { <<SP, DQ, "x", NL>>, <<SP, DQ, "x">>, <<SP, DQ, BS, NL>> }

BadTails ==
  { <<NL>>,
    <<SP, DQ, "x", DQ, SP, DQ, "y", DQ, NL>>,
    <<SP, "x", NL>>,
    <<SP, DQ, "x", DQ>>,
    <<SP, "'", NL>>,
    <<SP, "/", NL>>,
    <<"!", NL>> } \cup UnclosedTails

Commands == {kwInclude, kwRequire, kwError}
OtherIdents == {<<"x">>, <<"i", "n">>}

\* One-line texts: the trigger, optional space, an identifier and a tail.
DirectiveRoots ==
  { <<Trigger \o g \o id \o t>> :
      g \in {<<>>, <<SP>>}, id \in Commands \cup OtherIdents, t \in BadTails }

\* Texts with a shebang line, the trigger followed by "!" and up to two
\* more characters, as their first or as their second line.
ShebangChars == {"/", "x", SP, "*"}
ShebangBodies == UNION {[1..n -> ShebangChars] : n \in 0..2}
ShebangLine(body) == Trigger \o <<"!">> \o body \o <<NL>>
ShebangRoots ==
  {<<ShebangLine(b), TextLine>> : b \in ShebangBodies}
  \cup {<<TextLine, ShebangLine(b)>> : b \in ShebangBodies}

\* Directives next to and inside comments: after the end of a delimited
\* comment on the same line, at a line start inside a delimited comment, in
\* an end-of-line comment, and on the line after an end-of-line comment.
CommentSamples ==
  { << <<"/", "*", "*", "/">>, IncX >>,
    << <<"/", "*", NL>>, IncX, <<"*", "/", NL>> >>,
    << <<"/", "*", NL>>, IncX >>,
    << <<"/", "/">>, IncX >>,
    << <<";">>, IncX >>,
    << <<"t", "/", "/", "c", NL>>, IncX >>,
    << <<"t", ";", "c", NL>>, IncX >> }

\* One-line texts with a directive whose argument opens a double quote,
\* followed by up to MaxLen - 1 characters.
QuoteChars == {DQ, BS, NL, "x"}
QuoteBodies == UNION {[1..n -> QuoteChars] : n \in 0..(MaxLen - 1)}
QuoteRoots == { <<Trigger \o kwError \o <<SP, DQ>> \o b>> : b \in QuoteBodies }

InitWith(setups, roots) ==
  /\ strip = [c \in CommenterIds |-> FALSE]
  /\ plan \in setups
  /\ pcomm = <<>>
  /\ root \in roots
  /\ mode = "none"
  /\ pc = "config"
  /\ nodes = <<>>
  /\ nod = 0
  /\ files = {}
  /\ includeDepth = 0
  /\ stack = <<>>
  /\ result = ProcessorReturn(0, NoErr)
  /\ prev = NoPrev
  /\ ocomm = <<>>

\* Processing include and require structures.
Init ==
  InitWith(IncludeSetups,
           Roots \cup Samples \cup DirectiveRoots \cup ShebangRoots)

\* Processing arbitrary short texts under every commenter setup.
InitText ==
  \/ InitWith(Setups, {<<t>> : t \in TextsOver(TextChars)} \cup Samples
                       \cup DirectiveRoots \cup CommentSamples)
  \/ InitWith(LispSetups, {<<t>> : t \in TextsOver(LispChars)}
                           \cup CommentSamples)
  \/ InitWith({<<>>}, QuoteRoots)

Next ==
  \/ AddCommenter
  \/ ParseString
  \/ Parse
  \/ EditRoot
  \/ StepLexText
  \/ StepLexComment
  \/ StepLexActionBegin
  \/ StepLexActionEnd
  \/ StepLexSpace
  \/ StepLexQuote
  \/ StepLexInsideAction
  \/ StepLexAlphaNumeric
  \/ parseNext
  \/ parseText
  \/ parseComment
  \/ parseAction
  \/ parseShebang
  \/ parseCmdInclude
  \/ parseCmdRequire
  \/ parseCmdError
  \/ parseFileReturn
  \/ ParseStringReturn

Spec == Init /\ [][Next]_vars
SpecText == InitText /\ [][Next]_vars

\* Two Processors: the second one is configured between the calls of the
\* first, whose client repeats a call.
InitShared == InitWith(IncludeSetups, Samples)

NextShared ==
  \/ Next
  \/ Reprocess
  \/ OtherAddCommenter

SpecShared == InitShared /\ [][NextShared]_vars

\* ------------------------------------------------------------------------
\* Properties
\* ------------------------------------------------------------------------
Done == pc = "done"
Returned == Done /\ result.err = NoErr /\ result.nod # 0
RootKids == nodes[result.nod].kids
Stripping(c) == \E i \in 1..Len(pcomm) : pcomm[i] = c /\ strip[c]

\* The trigger at offset k has nothing but line whitespace before it on
\* its line.
LineStartAt(inp, k) == \A j \in (LastNL(inp, k) + 1)..k : IsSpace(inp[j])

\* Where the comment that begins at offset k ends: before the newline for an
\* end-of-line comment, after the end delimiter for a delimited one, at the
\* end of the input without either.
SpanEnd(c, inp, k) ==
  LET end == IF CommenterEnd(c) = <<>> THEN <<NL>> ELSE CommenterEnd(c)
      e == ConsumeUntil(inp, k + Len(CommenterBegin(c)), end)
  IN IF CommenterEnd(c) = <<>> /\ e > 0 /\ inp[e] = NL
        /\ e > k + Len(CommenterBegin(c))
     THEN e - 1 ELSE e

\* The input has a trigger at a line start outside every comment.
RECURSIVE DirectiveFrom(_, _, _)
DirectiveFrom(cs, inp, k) ==
  IF k >= Len(inp) THEN FALSE
  ELSE IF IsComment(cs, inp, k)
  THEN DirectiveFrom(cs, inp, SpanEnd(First(cs, inp, k), inp, k))
  ELSE IF HasPrefixAt(inp, k, Trigger) /\ LineStartAt(inp, k) THEN TRUE
  ELSE DirectiveFrom(cs, inp, k + 1)

HasDirective(cs, inp) == DirectiveFrom(cs, inp, 0)
HasComment(cs, inp) == \E k \in 0..(Len(inp) - 1) : IsComment(cs, inp, k)

\* The input without its stripped comment spans.
RECURSIVE WithoutSpans(_, _, _)
WithoutSpans(cs, inp, k) ==
  IF k >= Len(inp) THEN <<>>
  ELSE IF IsComment(cs, inp, k)
  THEN WithoutSpans(cs, inp, SpanEnd(First(cs, inp, k), inp, k))
  ELSE <<inp[k + 1]>> \o WithoutSpans(cs, inp, k + 1)

\* C1: a text without directive and without comment is rendered unchanged
\* by ParseString, which succeeds.
C1_RoundTrip ==
  (Done /\ mode = "ParseString" /\ ~HasDirective(pcomm, src)
     /\ ~HasComment(pcomm, src))
  => (Returned /\ Output = src)

C1_Witness ==
  /\ Done /\ mode = "ParseString" /\ pcomm # <<>>
  /\ ~HasDirective(pcomm, src) /\ ~HasComment(pcomm, src)
  /\ Len(src) >= 3 /\ src[1] = SP /\ src[Len(src)] = "#"
  /\ Output = src

\* C2: with the // commenter stripping, a directive-free text is rendered
\* as the text without its comment spans, the ending newlines kept.
C2_StripRemovesSpans ==
  (Done /\ mode = "ParseString" /\ pcomm = <<"Cpp">> /\ strip["Cpp"]
     /\ ~HasDirective(pcomm, src))
  => (Returned /\ Output = WithoutSpans(pcomm, src, 0))

ArgOf(piece) == SubSeq(piece, Len(Trigger \o kwInclude) + 3, Len(piece) - 2)
IsIncludeLine(piece) ==
  /\ Len(piece) > Len(Trigger \o kwInclude) + 3
  /\ piece = Directive(kwInclude, ArgOf(piece))
IsRequire(piece) ==
  /\ Len(piece) > Len(Trigger \o kwRequire) + 3
  /\ piece = Directive(kwRequire, ArgOf(piece))

FileKids(ks) == {j \in 1..Len(ks) : ks[j].t = "file"}

\* The rendering of a directive-free file whose comments end in a newline.
Rendered(data) ==
  WithoutSpans(SelectSeq(pcomm, LAMBDA c : strip[c]), data, 0)

\* The root text is text lines around exactly one include line, at index i.
OneIncludeAt(r, i) ==
  /\ i \in 1..Len(r)
  /\ IsIncludeLine(r[i])
  /\ \A j \in 1..Len(r) : j # i => r[j] = TextLine

\* C4: a root with one include line renders as the text before the line,
\* the child's text, the text after the line; the root has exactly one File
\* child, placed between the text before and the text after.
C4_IncludeSplices ==
  \A i \in 1..Len(root) :
    (Returned /\ OneIncludeAt(root, i))
    => LET pre == Flatten(SubSeq(root, 1, i - 1))
           post == Flatten(SubSeq(root, i + 1, Len(root)))
           ks == RootKids
       IN /\ Cardinality(FileKids(ks)) = 1
          /\ \A j \in FileKids(ks) :
               /\ j = IF pre = <<>> THEN 1 ELSE 2
               /\ StringKids(nodes, SubSeq(ks, 1, j - 1)) = pre
               /\ StringKids(nodes, SubSeq(ks, j + 1, Len(ks))) = post
               /\ nodes[ks[j].id].root = result.nod
               /\ nodes[ks[j].id].name = ArgOf(root[i])
               /\ Output = pre \o String(nodes, ks[j].id) \o post
               /\ ArgOf(root[i]) = XName
                    => String(nodes, ks[j].id) = Rendered(FileData(XName))

C4_Witness ==
  /\ Returned /\ OneIncludeAt(root, 2) /\ Len(root) = 3
  /\ root[2] = IncX /\ Stripping("Cpp")
  /\ Output = TextLine \o <<"X", NL, "Y", NL>> \o TextLine

\* C5: in a root of text lines, includes of x and requires of x (by name
\* or through the link), every include line adds its own File node for x
\* with the complete text of x, whatever was required or included before;
\* the require lines together add one.
XLines == {TextLine, IncX, ReqX, ReqL}
CountLines(r, kind) == Cardinality({i \in 1..Len(r) : r[i] = kind})
XKids(ks) == {j \in FileKids(ks) : nodes[ks[j].id].path = XName}

C5_IncludeNeverDedups ==
  (Returned /\ \A i \in 1..Len(root) : root[i] \in XLines)
  => /\ Cardinality(XKids(RootKids)) =
          CountLines(root, IncX)
          + (IF \E i \in 1..Len(root) : root[i] \in {ReqX, ReqL}
             THEN 1 ELSE 0)
     /\ \A j \in XKids(RootKids) :
          String(nodes, RootKids[j].id) = Rendered(FileData(XName))

C5_Witness ==
  /\ Returned /\ \A i \in 1..Len(root) : root[i] \in XLines
  /\ \E i, j \in 1..Len(root) :
       i < j /\ root[i] \in {ReqX, ReqL} /\ root[j] = IncX
  /\ CountLines(root, IncX) >= 1
  /\ Cardinality(XKids(RootKids)) = CountLines(root, IncX) + 1

\* Line i of root r requires a canonical path that an earlier line of r
\* requires.
SecondRequire(r, i) ==
  /\ i \in 1..Len(r) /\ IsRequire(r[i])
  /\ \E j \in 1..(i - 1) :
       IsRequire(r[j]) /\ Canon(ArgOf(r[j])) = Canon(ArgOf(r[i]))

\* The same call as the one recorded in prev has finished on the root text
\* without line prev.del.
Reprocessed ==
  /\ Done /\ prev.valid /\ prev.mode = mode
  /\ nodes # <<>> /\ nodes[1].name = prev.name

\* C6: a root with its second require of a path deleted gives the same
\* rendered text, the same number of nodes and the same success as the
\* root with it.
C6_SecondRequireAddsNothing ==
  (Reprocessed /\ SecondRequire(prev.root, prev.del))
  => /\ Output = prev.out
     /\ Len(nodes) = prev.count
     /\ (result.err = NoErr) = (prev.err = NoErr)

C6_Witness ==
  /\ Returned /\ Reprocessed
  /\ SecondRequire(prev.root, prev.del)
  /\ prev.del < Len(prev.root) /\ prev.root[Len(prev.root)] = TextLine
  /\ prev.err = NoErr
  /\ Output = prev.out
  /\ Len(Output) > Len(TextLine)

\* The FileNodes of canonical path p.
NodesOf(p) == {i \in 1..Len(nodes) : nodes[i].path = p}

\* C7 as claimed: a path that a require directive entered has at most one
\* File node in the tree.
C7_RequiredPathHasOneNode ==
  \A i \in 1..Len(nodes) :
    (nodes[i].unique /\ nodes[i].root # 0)
    => Cardinality(NodesOf(nodes[i].path)) <= 1

\* C7 as amended: a path has at most one File node that was entered through
\* require or as the top-level file of Parse; the other File nodes of the
\* path come from include directives.
C7_RequireEntersOnce ==
  \A i \in 1..Len(nodes) :
    Cardinality({j \in NodesOf(nodes[i].path) : nodes[j].unique}) <= 1

C7_Witness ==
  /\ Returned
  /\ \E i \in 1..Len(root) : root[i] = IncX
  /\ \E i \in 1..Len(root) : root[i] \in {ReqX, ReqL}
  /\ Cardinality(NodesOf(XName)) >= 3
  /\ Cardinality({j \in NodesOf(XName) : nodes[j].unique}) = 1

\* The parser is about to run a well-formed require directive whose
\* canonical path is in the visited set.
RequireOfVisited ==
  /\ Parsing("parseCmdRequire")
  /\ Expect(Top, "String", "ActionEnd").ok
  /\ Canon(Join(Dir(nodes[nod].name),
                Expect(Top, "String", "ActionEnd").args[1].val)) \in files

\* The directive was a no-op: the same loop goes on with parseNext, and
\* neither the tree, the visited set nor the depth changed.
NoOpContinues ==
  /\ Len(stack') = Len(stack)
  /\ stack'[Len(stack')].fn = "parseNext"
  /\ stack'[Len(stack')].err = errRequireIgnore
  /\ nodes' = nodes /\ nod' = nod /\ files' = files
  /\ includeDepth' = includeDepth
  /\ pc' = "run"

\* C8 as claimed: a require of a visited path is a no-op at every depth.
C8_VisitedRequireNeverFails == [][RequireOfVisited => NoOpContinues]_vars

\* C8 as amended: a require of a visited path is a no-op at every depth
\* below the maximum.
C8_VisitedRequireBelowMax ==
  [][(RequireOfVisited /\ includeDepth < MaxIncludeDepth) => NoOpContinues]_vars

C8_Witness ==
  /\ pc = "run" /\ stack # <<>>
  /\ Top.fn = "parseNext" /\ Top.err = errRequireIgnore
  /\ Len(stack) >= 2 /\ includeDepth < MaxIncludeDepth

\* The include levels entered on the way to node n: its proper ancestors.
RECURSIVE Level(_, _)
Level(ns, n) == IF ns[n].root = 0 THEN 0 ELSE 1 + Level(ns, ns[n].root)

\* C9: the depth error comes when exactly MaxIncludeDepth nested include
\* levels have been entered, under Parse and under ParseString alike.
C9_DepthErrorAfterMaxLevels ==
  (pc = "run" /\ stack # <<>> /\ Top.err = ErrMaxDepthExceeded)
  => Level(nodes, nod) = MaxIncludeDepth

\* C10: a failed Parse or ParseString returns no node.
C10_NoTreeOnError == (Done /\ result.err # NoErr) => result.nod = 0

\* C11: every error that Parse or ParseString returns is an Error value
\* with the PosInfo of the place where it was detected.
C11_ErrorsCarryPosInfo == (Done /\ result.err # NoErr) => result.err.pos # <<>>

\* A parse loop holds an error other than the require-already-visited signal.
Failing ==
  /\ pc = "run" /\ stack # <<>>
  /\ Top.err # NoErr /\ Top.err # errRequireIgnore

\* C12: from the step that detects a fatal error on, no node is appended to
\* any File node and no file is entered, every enclosing parse loop ends
\* with the error, and the top-level call returns it; an error held by a
\* loop that goes on is the require-already-visited signal.
C12_FatalErrorAborts ==
  [][/\ (pc = "run" /\ stack # <<>> /\ Top.err # NoErr /\ Top.fn # "return")
          => Top.err = errRequireIgnore
     /\ Failing
          => /\ Top.fn = "return"
             /\ nodes' = nodes
             /\ Len(stack') < Len(stack)
             /\ IF stack' = <<>>
                THEN pc' = "done" /\ result'.err # NoErr
                ELSE pc' = "run" /\ Failing'
                     /\ stack'[Len(stack')].fn = "return"]_vars

C12_Witness ==
  /\ Failing /\ Len(stack) = 1
  /\ Len(Top.err.pos) >= 1 /\ Top.err.msg = "error directive"
  /\ (Top.toks # <<>> \/ Top.start < Len(Top.inp))
  /\ \E j \in 1..Len(nodes[1].kids) : nodes[1].kids[j].t = "text"

\* The top-level text was read and its parse has finished.
Processed == Done /\ nodes # <<>>

\* C13: a directive whose quoted argument is not closed before the end of
\* the line or of the input fails with the unterminated-quoted-string error.
C13_UnterminatedQuoteReported ==
  \A g \in {<<>>, <<SP>>}, kw \in Commands, t \in UnclosedTails :
    (Processed /\ root = <<Trigger \o g \o kw \o t>>)
    => result.err.msg = "unterminated quoted string"

\* The argument error of a command.
ArgumentError(kw) ==
  CASE kw = kwInclude -> "command include takes a single string argument"
    [] kw = kwRequire -> "command require takes a single string argument"
    [] kw = kwError -> "command error takes a single string argument"

PosOf(name, data, o) == PosInfo(name, LineAt(data, o), ColAt(data, o))

\* C15: every rendered offset inside the contribution of an included file,
\* from its first byte to its last, is looked up as the included file's
\* name with the line and column of the byte in that file, also when root
\* text precedes the include.
C15_OffsetInsideInclude ==
  \A i \in 1..Len(root) :
    (Returned /\ pcomm = <<>> /\ OneIncludeAt(root, i)
       /\ ArgOf(root[i]) = XName)
    => LET pre == Flatten(SubSeq(root, 1, i - 1))
           data == FileData(XName)
       IN \A o \in 0..(Len(data) - 1) :
            Offset(nodes, result.nod, Len(pre) + o)
              = <<PosOf(XName, data, o)>>

\* (line, column) order of two lookup results.
Precedes(a, b) ==
  /\ a # <<>> /\ b # <<>>
  /\ \/ a[1].line < b[1].line
     \/ a[1].line = b[1].line /\ a[1].col < b[1].col

\* C16: in a text without directives the lookup is strictly monotonic:
\* of two offsets inside the rendered text the lower one gets the earlier
\* (line, column), also across the nodes the text is split into.
C16_OffsetMonotonic ==
  (Returned /\ mode = "ParseString" /\ ~HasDirective(pcomm, src))
  => \A o1, o2 \in 0..(Len(Output) - 1) :
       o1 < o2 => Precedes(Offset(nodes, result.nod, o1),
                           Offset(nodes, result.nod, o2))

\* C17: Offset is nil past the rendered length, OffsetLC is nil for a line
\* past the last rendered line and for a column past the end of a line, and
\* an offset inside the rendered text has a position.
C17_PastContentIsAbsent ==
  (Returned /\ mode = "ParseString" /\ ~HasDirective(pcomm, src))
  => LET out == Output
         lines == CountNL(out, Len(out))
     IN /\ \A o \in (Len(out) + 1)..(Len(out) + 2) :
             Offset(nodes, result.nod, o) = <<>>
        /\ \A o \in 0..(Len(out) - 1) : Offset(nodes, result.nod, o) # <<>>
        /\ \A l \in (lines + 2)..(lines + 3), c \in 1..2 :
             OffsetLC(nodes, result.nod, l, c) = <<>>
        /\ \A l \in 1..lines, c \in (Len(out) + 2)..(Len(out) + 3) :
             OffsetLC(nodes, result.nod, l, c) = <<>>

\* C18: configuring a second Processor between two calls of the first never
\* changes what the first returns for the same call on the same text.
C18_SessionsShareNoState ==
  (Reprocessed /\ prev.del = 0 /\ prev.root = root)
  => Output = prev.out /\ result.err = prev.err

\* C19: a first line that starts with the trigger and "!" is consumed up to
\* its end whatever follows on it, adds no node and raises no error, and the
\* second line is parsed; the same line as second line fails the parse.
C19_ShebangInert ==
  \A b \in ShebangBodies :
    /\ (Processed /\ root = <<ShebangLine(b), TextLine>>)
       => /\ result.err = NoErr
          /\ Len(nodes[1].kids) = 1
          /\ Output = TextLine
    /\ (Processed /\ root = <<TextLine, ShebangLine(b)>>)
       => result.err # NoErr

\* The parseFile invocations that have passed their checks and not returned.
ActiveFiles == {i \in 1..Len(stack) : stack[i].kind = "file"}

\* A step that enters a file, and a step that returns from one.
EntersFile ==
  Len(stack') = Len(stack) + 1 /\ stack'[Len(stack')].kind = "file"
LeavesFile == Len(stack') = Len(stack) - 1 /\ Top.kind = "file"

\* C20: includeDepth stays within 0..MaxIncludeDepth and is the number of
\* parseFile invocations that have passed their checks and not returned;
\* entering a file raises it by one, returning from one lowers it by one,
\* and no other step changes it.
C20_DepthCountsActiveFiles ==
  [][/\ includeDepth \in 0..MaxIncludeDepth
     /\ includeDepth' \in 0..MaxIncludeDepth
     /\ includeDepth = Cardinality(ActiveFiles)
     /\ includeDepth' = Cardinality(ActiveFiles')
     /\ IF EntersFile THEN includeDepth' = includeDepth + 1
        ELSE IF LeavesFile THEN includeDepth' = includeDepth - 1
        ELSE includeDepth' = includeDepth]_vars

C20_Witness ==
  /\ pc = "run" /\ Len(stack) >= 2
  /\ includeDepth = MaxIncludeDepth
  /\ Cardinality(ActiveFiles) = MaxIncludeDepth
  /\ Top.err = ErrMaxDepthExceeded

\* The node that lies up levels above node n (0 when there is none).
RECURSIVE Ancestor(_, _, _)
Ancestor(ns, n, up) ==
  IF up = 0 \/ n = 0 THEN n ELSE Ancestor(ns, ns[n].root, up - 1)

\* The current node and the include depth as frame i of the call stack
\* sees them: the top frame sees p.nod and p.includeDepth, and each
\* parseFile invocation above a frame accounts for one level.
NodeOf(i) == Ancestor(nodes, nod, Len(stack) - i)
DepthOf(i) == includeDepth - (Len(stack) - i)

\* The frames that a step neither pushes nor pops.
Surviving ==
  1..(IF Len(stack) < Len(stack') THEN Len(stack) ELSE Len(stack'))

\* C21: no step changes the current node or the include depth of a frame
\* that survives it, so a parseFile invocation made for a directive hands
\* both back to its caller as they were, however it returns; when the
\* top-level call returns, includeDepth is 0 and the current node is the
\* root.
C21_CallRestoresFrame ==
  [][/\ \A i \in Surviving :
          /\ NodeOf(i)' = NodeOf(i)
          /\ NodeOf(i) # 0
          /\ nodes[NodeOf(i)].name = stack[i].name
          /\ DepthOf(i)' = DepthOf(i)
     /\ (pc = "run" /\ pc' = "done")
          => /\ includeDepth' = 0
             /\ nod' = result'.nod
             /\ nod' # 0 /\ nodes'[nod'].root = 0]_vars

C21_Witness ==
  /\ pc = "run" /\ Len(stack) = 1 /\ Top.fn = "parseNext"
  /\ Top.err = errRequireIgnore
  /\ nod = 1
  /\ \E n \in 1..Len(nodes) : Level(nodes, n) = 2 /\ nodes[n].kids # <<>>

\* The offset of the token t of the input inp, from its line and column.
TokOffset(inp, t) ==
  CHOOSE k \in 0..Len(inp) : LineAt(inp, k) = t.line /\ ColAt(inp, k) = t.col

\* In the scanner f, the state that emits ActionBegin is entered only on a
\* trigger at a line start, and so is every ActionBegin token emitted.
ActionBeginAtLineStart(f) ==
  /\ f.lstate = "lexActionBegin"
       => HasPrefixAt(f.inp, f.pos, Trigger) /\ LineStartAt(f.inp, f.pos)
  /\ \A j \in 1..Len(f.toks) :
       f.toks[j].type = "ActionBegin"
         => /\ f.toks[j].val = Trigger
            /\ LineStartAt(f.inp, TokOffset(f.inp, f.toks[j]))

\* The trigger occurrences that a call of lexText passes from scanner f to
\* scanner g without accepting them are inside the Text token it emits.
PassedTriggersAreText(f, g) ==
  \A k \in f.start..(g.start - 1) :
    (HasPrefixAt(f.inp, k, Trigger)
       /\ ~(g.lstate = "lexActionBegin" /\ k = g.pos))
      => /\ ~LineStartAt(f.inp, k)
         /\ Len(g.toks) > Len(f.toks)
         /\ LET t == g.toks[Len(f.toks) + 1]
            IN /\ t.type = "Text"
               /\ TokOffset(f.inp, t) = f.start
               /\ k - f.start < Len(t.val)
               /\ t.val[k - f.start + 1] = f.inp[k + 1]

\* C22: ActionBegin is emitted only for a trigger at offset 0 or after
\* nothing but line whitespace on its line; a trigger with a character that
\* is not whitespace before it on its line, such as the end of a comment,
\* becomes part of a Text token and starts no directive.
C22_TriggerOnlyAtLineStart ==
  [][/\ \A i \in 1..Len(stack') : ActionBeginAtLineStart(stack'[i])
     /\ (Scanning /\ Top.lstate = "lexText")
          => PassedTriggersAreText(Top, stack'[Len(stack')])]_vars

C22_Witness ==
  /\ pc = "run" /\ stack # <<>>
  /\ HasPrefixAt(Top.inp, 0, CommenterBegin("C"))
  /\ \E j \in 1..Len(Top.toks) :
       /\ Top.toks[j].type = "Text"
       /\ HasPrefixAt(Top.toks[j].val, 0, Trigger)
       /\ TokOffset(Top.inp, Top.toks[j]) > 0
       /\ Top.inp[TokOffset(Top.inp, Top.toks[j])] # NL

\* The offset after the line that holds offset k.
RECURSIVE LineEnd(_, _)
LineEnd(inp, k) ==
  IF k >= Len(inp) THEN Len(inp)
  ELSE IF inp[k + 1] = NL THEN k + 1 ELSE LineEnd(inp, k + 1)

\* Offset t lies inside a comment span of the input, reading the input from
\* offset k on: a span runs from a begin delimiter outside directive lines
\* to its end delimiter, to the newline, or to the end of the input.
RECURSIVE InSpanFrom(_, _, _, _)
InSpanFrom(cs, inp, k, t) ==
  IF k >= Len(inp) \/ k > t THEN FALSE
  ELSE IF HasPrefixAt(inp, k, Trigger) /\ LineStartAt(inp, k)
  THEN InSpanFrom(cs, inp, LineEnd(inp, k), t)
  ELSE IF IsComment(cs, inp, k)
  THEN LET c == First(cs, inp, k)
           end == IF CommenterEnd(c) = <<>> THEN <<NL>> ELSE CommenterEnd(c)
           e == ConsumeUntil(inp, k + Len(CommenterBegin(c)), end)
       IN t < e \/ InSpanFrom(cs, inp, e, t)
  ELSE InSpanFrom(cs, inp, k + 1, t)

InSpan(cs, inp, t) == InSpanFrom(cs, inp, 0, t)

\* Every trigger of the input lies inside a comment span.
AllTriggersInSpans(cs, inp) ==
  /\ \E k \in 0..(Len(inp) - 1) : HasPrefixAt(inp, k, Trigger)
  /\ \A k \in 0..(Len(inp) - 1) :
       HasPrefixAt(inp, k, Trigger) => InSpan(cs, inp, k)

\* In the scanner f no ActionBegin comes from inside a comment span.
NoActionBeginInSpan(cs, f) ==
  /\ f.lstate = "lexActionBegin" => ~InSpan(cs, f.inp, f.pos)
  /\ \A j \in 1..Len(f.toks) :
       f.toks[j].type = "ActionBegin"
         => ~InSpan(cs, f.inp, TokOffset(f.inp, f.toks[j]))

\* C23: a trigger inside a comment span, also at a line start inside a
\* comment of several lines, produces no ActionBegin token and loads no
\* file, whether the comment is stripped or kept.
C23_NoDirectiveInsideComment ==
  pc # "config"
    => /\ \A i \in 1..Len(stack) : NoActionBeginInSpan(pcomm, stack[i])
       /\ AllTriggersInSpans(pcomm, src)
            => Len(nodes) <= 1 /\ Len(stack) <= 1

C23_Witness ==
  /\ Done /\ result.err = NoErr
  /\ root = << <<"/", "*", NL>>, IncX, <<"*", "/", NL>> >>
  /\ AllTriggersInSpans(pcomm, src)
  /\ Len(nodes) = 1

\* The input ends inside a comment: reading from offset k on, a comment
\* begins whose end delimiter, or newline, never comes.
RECURSIVE EndsInComment(_, _, _)
EndsInComment(cs, inp, k) ==
  IF k >= Len(inp) THEN FALSE
  ELSE IF IsComment(cs, inp, k)
  THEN LET c == First(cs, inp, k)
           from == k + Len(CommenterBegin(c))
           end == IF CommenterEnd(c) = <<>> THEN <<NL>> ELSE CommenterEnd(c)
           e == ConsumeUntil(inp, from, end)
       IN IF e - Len(end) >= from /\ HasPrefixAt(inp, e - Len(end), end)
          THEN EndsInComment(cs, inp, IF CommenterEnd(c) = <<>>
                                      THEN e - 1 ELSE e)
          ELSE TRUE
  ELSE EndsInComment(cs, inp, k + 1)

\* C24: a directive-free text that ends inside a comment is parsed with
\* success; rendered, the comment spans are absent when the commenters
\* strip and the text is unchanged when they keep.
C24_OpenCommentTolerated ==
  (Done /\ mode = "ParseString" /\ ~HasDirective(pcomm, src)
     /\ EndsInComment(pcomm, src, 0))
  => /\ Returned
     /\ (\A i \in 1..Len(pcomm) : strip[pcomm[i]])
          => Output = WithoutSpans(pcomm, src, 0)
     /\ (\A i \in 1..Len(pcomm) : ~strip[pcomm[i]]) => Output = src

\* Scanning short texts under the one-character end-of-line commenter: the
\* scanner states and parse functions that such texts reach.
InitScan == InitWith(LispSetups, {<<t>> : t \in TextsOver(LispChars)})

NextScan ==
  \/ AddCommenter
  \/ ParseString
  \/ Parse
  \/ StepLexText
  \/ StepLexComment
  \/ StepLexActionBegin
  \/ StepLexActionEnd
  \/ StepLexSpace
  \/ StepLexInsideAction
  \/ parseNext
  \/ parseText
  \/ parseComment
  \/ parseAction
  \/ parseFileReturn
  \/ ParseStringReturn

\* The program is sequential: a step that can be taken is taken.
SpecScan == InitScan /\ [][NextScan]_vars /\ WF_vars(NextScan)

\* C25: every scan ends with a terminal token, so that a run that has
\* started returns; text mode and comment mode do not alternate forever.
\* Stated for stripping commenters, where the scanner emits no token for a
\* comment and the tree does not grow while the two modes alternate.
C25_ScanTerminates ==
  (pc = "run" /\ \A i \in 1..Len(pcomm) : strip[pcomm[i]]) ~> (pc = "done")

\* In a quoted argument whose first character is at offset s, the character
\* at offset j is escaped: a backslash that is not itself escaped stands
\* before it.
RECURSIVE Escaped(_, _, _)
Escaped(inp, s, j) == j > s /\ inp[j] = BS /\ ~Escaped(inp, s, j - 1)

\* The double quotes that can close the argument, and the newlines.
ClosingQuotes(inp, s) ==
  {j \in s..(Len(inp) - 1) : inp[j + 1] = DQ /\ ~Escaped(inp, s, j)}
Newlines(inp, s) == {j \in s..(Len(inp) - 1) : inp[j + 1] = NL}
Least(S) == CHOOSE j \in S : \A i \in S : j <= i

\* The argument is closed on its line.
ClosedOnLine(inp, s) ==
  /\ ClosingQuotes(inp, s) # {}
  /\ \A j \in Newlines(inp, s) : Least(ClosingQuotes(inp, s)) < j

\* C26: a step of lexQuote on an opening double quote emits one token.  If
\* an unescaped double quote comes before any newline and before the end of
\* the input, the token is a String whose value is the raw text between the
\* quotes, and the scan goes on after the closing quote; otherwise it is an
\* Error and no String is emitted.
C26_QuotedArgument ==
  [][(Scanning /\ Top.lstate = "lexQuote" /\ RuneAt(Top.inp, Top.pos) = DQ)
       => LET f == Top
              g == stack'[Len(stack')]
              s == f.pos + 1
              t == g.toks[Len(g.toks)]
          IN /\ Len(g.toks) = Len(f.toks) + 1
             /\ IF ClosedOnLine(f.inp, s)
                THEN /\ t.type = "String"
                     /\ t.val = SubSeq(f.inp, s + 1,
                                       Least(ClosingQuotes(f.inp, s)))
                     /\ g.pos = Least(ClosingQuotes(f.inp, s)) + 1
                     /\ g.lstate = "lexInsideAction"
                ELSE /\ t.type = "Error"
                     /\ t.msg = "unterminated quoted string"
                     /\ g.lstate = "nil"]_vars

C26_Witness ==
  /\ pc = "run" /\ stack # <<>>
  /\ \E j \in 1..Len(Top.toks) :
       /\ Top.toks[j].type = "String"
       /\ Top.toks[j].val = <<BS, DQ>>
  /\ Top.inp[Len(Top.inp)] = DQ

\* Require cycles: the top-level file requires itself, requires a file
\* that requires it back, or requires a file on a cycle of two other files.
ReqR == Directive(kwRequire, RootName)
ReqY == Directive(kwRequire, <<"y">>)
ReqP == Directive(kwRequire, <<"p">>)
CycleLines == {TextLine, ReqR, ReqY, ReqP}
CycleRoots == UNION {[1..n -> CycleLines] : n \in 1..MaxLines}

InitCycle == InitWith(IncludeSetups, CycleRoots)

NextCycle ==
  \/ AddCommenter
  \/ Parse
  \/ StepLexText
  \/ StepLexActionBegin
  \/ StepLexActionEnd
  \/ StepLexSpace
  \/ StepLexQuote
  \/ StepLexInsideAction
  \/ StepLexAlphaNumeric
  \/ parseNext
  \/ parseText
  \/ parseAction
  \/ parseCmdRequire
  \/ parseFileReturn

\* The program is sequential: a step that can be taken is taken.
SpecCycle == InitCycle /\ [][NextCycle]_vars /\ WF_vars(NextCycle)

\* The files nested on the way from the top-level file round the cycle that
\* a require line of the top-level file enters.
ChainFiles(piece) ==
  {RootName} \cup
    (CASE piece = ReqR -> {RootName}
       [] piece = ReqY -> {RootName, <<"y">>}
       [] piece = ReqP -> {<<"p">>, <<"q">>}
       [] OTHER -> {})

RequireLines == {i \in 1..Len(root) : IsRequire(root[i])}

\* Every cycle of the top-level file closes below the depth limit.
ShortCycles ==
  \A i \in RequireLines :
    Cardinality(ChainFiles(root[i])) < MaxIncludeDepth

\* Every cycle of the top-level file nests no deeper than the depth limit.
FittingCycles ==
  \A i \in RequireLines :
    Cardinality(ChainFiles(root[i])) <= MaxIncludeDepth

\* Parse(path) of a top-level file with a require cycle has returned with
\* success, and every file of its chains was parsed once.
CycleParsedOnce ==
  /\ result.err = NoErr /\ result.nod = 1
  /\ \A i \in RequireLines : \A name \in ChainFiles(root[i]) :
       /\ Cardinality(NodesOf(name)) = 1
       /\ name \in files

CycleRun == mode = "Parse" /\ nodes # <<>> /\ RequireLines # {}

====
